---- MODULE Spec2Model ----
(***************************************************************************)
(* Motion-capture session engine of the backend: the websocket camera      *)
(* handler (backend/routes/websockets.py and the stand-alone               *)
(* backend/main.py), the end-only DTW scorer (backend/routes/utils_dtw.py  *)
(* and backend/utils_dtw.py), the recordings directory, the TestResult     *)
(* table and the test-history file.                                        *)
(***************************************************************************)
EXTENDS Integers, Sequences, FiniteSets, TLC

VARIABLES
    app,          \* which application serves the sockets: "routes" | "main"
    mp_ok,        \* the process can import MediaPipe (_mp() does not raise)
    alive,        \* alive[c]: the message loop of connection c is running
    data,         \* data[c]: the last message received (local `data`)
    sent,         \* sent[c]: messages sent in answer to data[c], in order
    env,          \* env[c]: what the collaborators did while data[c] was handled
    completes,    \* completes[c]: number of `complete` messages sent so far
    nmsgs,        \* nmsgs[c]: number of messages received so far
    frames,       \* local `frames`
    fps_hint,     \* local `fps_hint`
    patient_id,   \* local `patient_id`
    test_name,    \* local `test_name`
    test_id,      \* local `test_id`
    model,        \* local `model`
    started,      \* local `started`
    mp_extractor, \* local `mp_extractor`: <<>> (None) or <<extractor>>
    dtw_end,      \* local `dtw_end`: <<>> (None) or <<EndOnlyDTW object>>
    recordings,   \* RECORDINGS_DIR: file name -> frames written
    rows,         \* testresults table: set of TestResult rows
    history,      \* test-history file: sequence of entries (main.py)
    dtw_runs,     \* DTW_BASE: set of artifact folders written
    next_uuid,    \* number of uuid4 recording ids drawn so far (main.py)
    unit,         \* an EndOnlyDTW object driven directly through push()
    hist,         \* hist[c]: what connection c was sent and fed so far (history)
    dtw,          \* a scoring call driven directly: <<>> or <<its inputs and result>>
    norm,         \* a test name being normalised: <<>> or <<the name and the result>>
    rest          \* a read request driven directly: <<>> or <<the store, the request, the response>>

sessionVars == <<frames, fps_hint, patient_id, test_name, test_id, model,
                 started, mp_extractor, dtw_end>>
storeVars == <<recordings, rows, history, dtw_runs, next_uuid>>
connVars == <<alive, data, sent, env, completes, nmsgs, hist>>
vars == <<app, mp_ok, alive, data, sent, env, completes, nmsgs, frames, fps_hint,
          patient_id, test_name, test_id, model, started, mp_extractor,
          dtw_end, recordings, rows, history, dtw_runs, next_uuid, unit, hist, dtw,
          norm, rest>>

----------------------------------------------------------------------------
(* Bounds *)

MaxMsgs == 5      \* messages received on one connection
MaxFrames == 2    \* frames held in the frame buffer
MaxPushes == 4    \* direct push() calls on one EndOnlyDTW object

----------------------------------------------------------------------------
(* Values *)

None == "None"
Conns == {1, 2}
Apps == {"routes", "main"}
Models == {"hands", "pose", "finger"}

\* What a decoded image shows; this decides what MediaPipe detects in it.
Images == {"hand", "body", "blank"}
Garbage == "garbage"       \* a payload that does not decode to an image

HandPoints == 21
PosePoints == 33
DefaultFps == 30

----------------------------------------------------------------------------
(* normalize_test_name *)

CanonicalTests == {"stand-and-sit", "finger-tapping", "fist-open-close"}
ALLOWED_TESTS == CanonicalTests

\* A test name is spelled as a sequence of tokens: words, and the
\* separator characters "-", "_", " " and "&".
RECURSIVE Join(_)
Join(tokens) == IF tokens = <<>> THEN "" ELSE tokens[1] \o Join(Tail(tokens))

RECURSIVE Between(_, _)
Between(words, sep) ==
    IF Len(words) <= 1 THEN words
    ELSE <<words[1]>> \o sep \o Between(Tail(words), sep)

\* The names the clients send: each word list written with "-", "_", " "
\* or "--" between the words, as it is or capitalised and padded with blanks.
NameWords ==
    { <<"finger", "taping">>, <<"finger", "tapping">>, <<"fist", "open", "close">>,
      <<"stand", "sit">>, <<"stand", "to", "sit">>, <<"stand", "&", "sit", "assessment">>,
      <<"palm", "open">>, <<"tremor">> }
NameSeparators == { <<"-">>, <<"_">>, <<" ">>, <<"-", "-">> }

Capital(word) ==
    CASE word = "finger" -> "Finger"
      [] word = "fist" -> "Fist"
      [] word = "stand" -> "Stand"
      [] word = "palm" -> "Palm"
      [] word = "tremor" -> "Tremor"
      [] OTHER -> word

NameTokens ==
    { Between(ws, sep) : ws \in NameWords, sep \in NameSeparators }
    \cup
    { <<" ", Capital(ws[1])>> \o Tail(Between(ws, sep)) \o <<" ">> :
         ws \in NameWords, sep \in NameSeparators }

\* The spelling of a name of the model; a name not listed is one word.
Spelling == [t \in {Join(ts) : ts \in NameTokens} |->
                CHOOSE ts \in NameTokens : Join(ts) = t]
Spell(t) == IF t = "" THEN <<>>
            ELSE IF t \in DOMAIN Spelling THEN Spelling[t] ELSE <<t>>

\* str.strip(): blanks at both ends are removed
RECURSIVE Strip(_)
Strip(tokens) ==
    IF tokens = <<>> THEN <<>>
    ELSE IF tokens[1] = " " THEN Strip(Tail(tokens))
    ELSE IF tokens[Len(tokens)] = " " THEN Strip(SubSeq(tokens, 1, Len(tokens) - 1))
    ELSE tokens

\* str.lower()
Lower(tokens) ==
    [i \in 1..Len(tokens) |->
        IF \E w \in {"finger", "fist", "stand", "palm", "tremor"} : Capital(w) = tokens[i]
        THEN CHOOSE w \in {"finger", "fist", "stand", "palm", "tremor"} : Capital(w) = tokens[i]
        ELSE tokens[i]]

\* str.replace(old, new) for a one-character `old`
Replace(tokens, old, new) ==
    [i \in 1..Len(tokens) |-> IF tokens[i] = old THEN new ELSE tokens[i]]

\* while "--" in t: t = t.replace("--", "-")
RECURSIVE Collapse(_)
Collapse(tokens) ==
    IF Len(tokens) <= 1 THEN tokens
    ELSE IF tokens[1] = "-" /\ tokens[2] = "-" THEN Collapse(Tail(tokens))
    ELSE <<tokens[1]>> \o Collapse(Tail(tokens))

\* t.replace(" ", "-").replace("_", "-"), t.replace("&", "and") and the
\* collapse of "--", on a stripped and lowered name.
DashedTokens(tokens) ==
    Collapse(Replace(Replace(Replace(tokens, " ", "-"), "_", "-"), "&", "and"))

Dashed(t) == Join(DashedTokens(Lower(Strip(Spell(t)))))

_TEST_NORMALIZATION_ALIASES ==
    { <<"stand-and-sit", "stand-and-sit">>,
      <<"stand-sit", "stand-and-sit">>,
      <<"stand_to_sit", "stand-and-sit">>,
      <<"stand-and-sit-assessment", "stand-and-sit">>,
      <<"stand-and-sit-test", "stand-and-sit">>,
      <<"stand-&-sit", "stand-and-sit">>,
      <<"stand-&-sit-assessment", "stand-and-sit">>,
      <<"stand-and-sit-evaluation", "stand-and-sit">>,
      <<"finger-tapping", "finger-tapping">>,
      <<"finger_tapping", "finger-tapping">>,
      <<"finger-taping", "finger-tapping">>,
      <<"finger-tapping-test", "finger-tapping">>,
      <<"finger-tapping-assessment", "finger-tapping">>,
      <<"finger-tap", "finger-tapping">>,
      <<"fist-open-close", "fist-open-close">>,
      <<"fist_open_close", "fist-open-close">>,
      <<"fist-open-close-test", "fist-open-close">>,
      <<"fist-open-close-assessment", "fist-open-close">> }

AliasGet(table, key, default) ==
    IF \E p \in table : p[1] = key
    THEN (CHOOSE p \in table : p[1] = key)[2]
    ELSE default

\* routes/utils_dtw.py
normalize_test_name(t) ==
    IF t = None \/ Strip(Spell(t)) = <<>>
    THEN ""
    ELSE AliasGet(_TEST_NORMALIZATION_ALIASES, Dashed(t), Dashed(t))

\* utils_dtw.py, used by main.py: only strip/lower and one alias.
main_normalize_test_name(t) ==
    IF t = None THEN ""
    ELSE IF Join(Lower(Strip(Spell(t)))) = "finger-taping" THEN "finger-tapping"
    ELSE Join(Lower(Strip(Spell(t))))

\* patient_manager.py
_TEST_NAME_ALIASES ==
    _TEST_NORMALIZATION_ALIASES
    \cup { <<"palm-open", "fist-open-close">>, <<"palm_open", "fist-open-close">> }

_normalize_test_name(value) ==
    IF value = None \/ Strip(Spell(value)) = <<>>
    THEN "unknown"
    ELSE AliasGet(_TEST_NAME_ALIASES, Dashed(value), Dashed(value))

NormalizeFor(a, t) ==
    IF a = "routes" THEN normalize_test_name(t) ELSE main_normalize_test_name(t)

----------------------------------------------------------------------------
(* TemplateLibrary *)

\* The .npz files under templates/<test>/<model>.npz: array X of `ndim`
\* dimensions with shape (rows, dim).
TemplateFiles ==
    { [test |-> "finger-tapping", model |-> "hands", ndim |-> 2, rows |-> 2, dim |-> 42],
      [test |-> "finger-tapping", model |-> "pose", ndim |-> 2, rows |-> 2, dim |-> 66],
      [test |-> "finger-tapping", model |-> "finger", ndim |-> 2, rows |-> 2, dim |-> 8],
      [test |-> "fist-open-close", model |-> "hands", ndim |-> 2, rows |-> 3, dim |-> 8],
      [test |-> "fist-open-close", model |-> "pose", ndim |-> 1, rows |-> 3, dim |-> 0] }

\* TemplateLibrary.load: [ok, X]; ok = FALSE stands for the exception raised
\* (ValueError for an array that is not 2-D, FileNotFoundError for no file).
TemplateLibrary_load(a, test, m) ==
    LET test_key == NormalizeFor(a, test)
        found == {f \in TemplateFiles : f.test = test_key /\ f.model = m}
    IN
    IF found = {}
    THEN [ok |-> FALSE, X |-> <<>>]
    ELSE LET file == CHOOSE f \in found : TRUE
         IN  IF file.ndim # 2
             THEN [ok |-> FALSE, X |-> <<>>]
             ELSE [ok |-> TRUE, X |-> <<[rows |-> file.rows, dim |-> file.dim]>>]

----------------------------------------------------------------------------
(* MPExtractor *)

\* MPExtractor.__init__: the MediaPipe graph for the model, None for a
\* model that is neither "hands" nor "pose".
MPExtractor(m) ==
    [model |-> m,
     solution |-> IF m = "hands" THEN "Hands"
                  ELSE IF m = "pose" THEN "Pose" ELSE None]

\* The landmark record of one frame: `hands` holds the number of landmarks
\* of each detected hand, `pose` the number of pose landmarks, `img` the
\* image the coordinates were read from.
ErrorKp == [error |-> TRUE, hands |-> <<>>, pose |-> 0, img |-> None]

\* MPExtractor.process
MPExtractor_process(ext, img) ==
    IF ext.solution = None
    THEN ErrorKp
    ELSE IF ext.model = "hands"
    THEN [error |-> FALSE,
          hands |-> IF img = "hand" THEN <<HandPoints>> ELSE <<>>,
          pose |-> 0, img |-> img]
    ELSE IF ext.model = "pose"
    THEN [error |-> FALSE, hands |-> <<>>,
          pose |-> IF img = "body" THEN PosePoints ELSE 0, img |-> img]
    ELSE ErrorKp

----------------------------------------------------------------------------
(* Feature extraction: a feature is <<>> (None) or <<vector>>, a vector
   being its dimension and the image it was computed from *)

_hands_features(kp) ==
    IF kp.hands = <<>>
    THEN <<>>
    ELSE IF kp.hands[1] < HandPoints
    THEN <<>>
    ELSE <<[dim |-> 2 * HandPoints, img |-> kp.img]>>

_pose_features(kp, use_z) ==
    IF kp.pose = 0 \/ kp.pose < PosePoints
    THEN <<>>
    ELSE <<[dim |-> (IF use_z THEN 3 ELSE 2) * PosePoints, img |-> kp.img]>>

\* The landmark indices _select_finger_features reads.
finger_indices == <<3, 4, 7, 8>>

\* extract_features of routes/utils_dtw.py: [raised, feat].  For "finger"
\* the result of _hands_features is indexed without a None check, which
\* raises TypeError when no hand was found.
extract_features(m, kp, use_z) ==
    IF m = "hands" THEN [raised |-> FALSE, feat |-> _hands_features(kp)]
    ELSE IF m = "pose" THEN [raised |-> FALSE, feat |-> _pose_features(kp, use_z)]
    ELSE IF m = "finger"
    THEN IF _hands_features(kp) = <<>>
         THEN [raised |-> TRUE, feat |-> <<>>]
         ELSE [raised |-> FALSE,
               feat |-> <<[dim |-> 2 * Len(finger_indices),
                           img |-> _hands_features(kp)[1].img]>>]
    ELSE [raised |-> FALSE, feat |-> <<>>]

\* extract_features of utils_dtw.py (main.py): no "finger" branch.
main_extract_features(m, kp, use_z) ==
    IF m = "hands" THEN [raised |-> FALSE, feat |-> _hands_features(kp)]
    ELSE IF m = "pose" THEN [raised |-> FALSE, feat |-> _pose_features(kp, use_z)]
    ELSE [raised |-> FALSE, feat |-> <<>>]

ExtractFor(a, m, kp, use_z) ==
    IF a = "routes" THEN extract_features(m, kp, use_z)
    ELSE main_extract_features(m, kp, use_z)

----------------------------------------------------------------------------
(* EndOnlyDTW *)

\* EndOnlyDTW.__init__ (sakoe_radius is never passed by the handlers)
EndOnlyDTW(a, test, m, tid) ==
    LET loaded == TemplateLibrary_load(a, NormalizeFor(a, test), m)
    IN  [app |-> a,
         test_name |-> NormalizeFor(a, test),
         model |-> m,
         use_z |-> FALSE,
         buf |-> <<>>,
         pushed_frames |-> 0,
         pushed_feats |-> 0,
         pushed_drops |-> 0,
         test_id |-> tid,
         X_ref |-> loaded.X,
         init_error |-> IF loaded.ok THEN "" ELSE "Template load failed",
         sakoe_radius |-> None]

\* EndOnlyDTW.push: [obj, raised].  The frame counter is incremented before
\* the features are extracted.
push(obj, kp) ==
    LET counted == [obj EXCEPT !.pushed_frames = @ + 1]
        ex == ExtractFor(obj.app, obj.model, kp, obj.use_z)
    IN  IF ex.raised
        THEN [obj |-> counted, raised |-> TRUE]
        ELSE IF ex.feat # <<>>
        THEN [obj |-> [counted EXCEPT !.buf = Append(@, ex.feat[1]),
                                      !.pushed_feats = @ + 1],
              raised |-> FALSE]
        ELSE [obj |-> [counted EXCEPT !.pushed_drops = @ + 1],
              raised |-> FALSE]

\* `"sit" in test_name` and `"finger" in test_name` on the names of the model
HasSit(t) == t \in {"stand-and-sit", "stand-sit", "stand-to-sit", "stand_to_sit"}
HasFinger(t) == t \in {"finger-tapping", "finger-taping", "finger_tapping", "finger-tap"}

\* save_dtw_npz: [raised, folder].  The artifact folder is
\* DTW_BASE / canonical / test_id; joining a path with None raises TypeError
\* before anything is written.
save_dtw_npz(a, test, tid) ==
    LET canonical == IF NormalizeFor(a, test) \in ALLOWED_TESTS
                     THEN NormalizeFor(a, test)
                     ELSE IF HasSit(test) THEN "stand-and-sit"
                     ELSE IF HasFinger(test) THEN "finger-tapping"
                     ELSE "fist-open-close"
    IN  IF tid = None
        THEN [raised |-> TRUE, folder |-> <<>>, test_name |-> canonical]
        ELSE [raised |-> FALSE,
              folder |-> <<[test |-> canonical, id |-> tid]>>,
              test_name |-> canonical]

\* The scores finalize computes from the live matrix and the template; they
\* are a function of the two and are carried here by the shapes compared.
ChannelScores(obj) ==
    [live_len |-> Len(obj.buf), ref_len |-> obj.X_ref[1].rows]

\* What both versions of finalize_and_save answer before any scoring.
FinalizeRefusal(obj) ==
    IF obj.init_error # ""
    THEN <<[ok |-> FALSE, where |-> "init", message |-> obj.init_error]>>
    ELSE IF obj.buf = <<>> \/ obj.X_ref = <<>>
    THEN <<[ok |-> FALSE, where |-> "finalize",
            message |-> "No features or template missing",
            frames_seen |-> obj.pushed_frames,
            features_built |-> Len(obj.buf),
            feature_drops |-> obj.pushed_drops]>>
    ELSE IF obj.buf[1].dim # obj.X_ref[1].dim
    THEN <<[ok |-> FALSE, where |-> "finalize", message |-> "Dim mismatch"]>>
    ELSE <<>>

\* EndOnlyDTW.finalize_and_save of routes/utils_dtw.py:
\* [raised, payload, folder]
finalize_and_save(obj) ==
    IF FinalizeRefusal(obj) # <<>>
    THEN [raised |-> FALSE, payload |-> FinalizeRefusal(obj)[1], folder |-> <<>>]
    ELSE LET saved == save_dtw_npz(obj.app, obj.test_name, obj.test_id)
         IN  IF saved.raised
             THEN [raised |-> TRUE, payload |-> [ok |-> FALSE], folder |-> <<>>]
             ELSE [raised |-> FALSE,
                   payload |-> [ok |-> TRUE,
                                similarity_overall |-> ChannelScores(obj),
                                similarity_pos |-> ChannelScores(obj),
                                similarity_amp |-> ChannelScores(obj),
                                similarity_spd |-> ChannelScores(obj)],
                   folder |-> saved.folder]

\* EndOnlyDTW.finalize_and_save of utils_dtw.py (main.py)
main_finalize_and_save(obj) ==
    IF FinalizeRefusal(obj) # <<>>
    THEN [raised |-> FALSE, payload |-> FinalizeRefusal(obj)[1], folder |-> <<>>]
    ELSE LET saved == save_dtw_npz(obj.app, obj.test_name, obj.test_id)
         IN  IF saved.raised
             THEN [raised |-> TRUE, payload |-> [ok |-> FALSE], folder |-> <<>>]
             ELSE [raised |-> FALSE,
                   payload |-> [ok |-> TRUE,
                                distance |-> ChannelScores(obj),
                                avg_step_cost |-> ChannelScores(obj),
                                similarity |-> ChannelScores(obj),
                                live_len |-> Len(obj.buf),
                                ref_len |-> obj.X_ref[1].rows,
                                frames_seen |-> obj.pushed_frames,
                                features_built |-> Len(obj.buf),
                                test_name |-> saved.test_name],
                   folder |-> saved.folder]

FinalizeFor(obj) ==
    IF obj.app = "routes" THEN finalize_and_save(obj)
    ELSE main_finalize_and_save(obj)

----------------------------------------------------------------------------
(* Media helpers *)

\* _decode_base64_image: [raised, frame]
_decode_base64_image(payload) ==
    IF payload \in Images
    THEN [raised |-> FALSE, frame |-> payload]
    ELSE [raised |-> TRUE, frame |-> None]

\* float() of the fps field of an init message: [raised, value]
ParseFloat(text) ==
    IF text = "15" THEN [raised |-> FALSE, value |-> 15]
    ELSE IF text = "30" THEN [raised |-> FALSE, value |-> 30]
    ELSE [raised |-> TRUE, value |-> 0]

\* What the video writer does on an `end`: it opens and writes, no codec
\* opens, or OpenCV raises.
WriterOutcomes == {"ok", "noopen", "raise"}

\* _save_frames_to_mp4 of routes/websockets.py: [raised, filename, written].
\* The name is fixed by test_id; RuntimeError when no codec opens.
_save_frames_to_mp4(tid, fs, outcome) ==
    IF fs = <<>> \/ outcome # "ok"
    THEN [raised |-> TRUE, filename |-> None, written |-> FALSE]
    ELSE [raised |-> FALSE,
          filename |-> "ws_recording_" \o tid \o ".mp4",
          written |-> TRUE]

\* _save_frames_to_mp4 of main.py: the name holds a fresh uuid4; the writer
\* is not asked whether it opened, so the name is returned also when
\* nothing was written.
main_save_frames_to_mp4(n, fs, outcome) ==
    IF fs = <<>> \/ outcome = "raise"
    THEN [raised |-> TRUE, filename |-> None, written |-> FALSE]
    ELSE [raised |-> FALSE,
          filename |-> "ws_recording_" \o ToString(n) \o ".mp4",
          written |-> (outcome = "ok")]

\* dict merge {**r1, **r2}
Merge(r1, r2) ==
    [k \in DOMAIN r1 \cup DOMAIN r2 |-> IF k \in DOMAIN r2 THEN r2[k] ELSE r1[k]]

\* The keys of the finalize result the TestResult row is built from
\* (websockets.py reads each with dtw_payload[key]).
RowKeys ==
    {"similarity_overall", "similarity_pos", "similarity_amp", "similarity_spd",
     "pos_dtw", "amp_dtw", "spd_dtw", "avg_step_pos",
     "R_pos", "R_amp", "R_spd", "L_pos", "L_amp", "L_spd",
     "pos_local_costs", "pos_aligned_ref_by_live",
     "amp_local_costs", "amp_aligned_ref_by_live",
     "spd_local_costs", "spd_aligned_ref_by_live"}

----------------------------------------------------------------------------
(* Client messages *)

InitMsg(test, m, fps, tid) ==
    [type |-> "init", patientId |-> "P1", testType |-> test,
     model |-> m, fps |-> fps, testId |-> tid]

\* One init message per case of the handler: each model on a test with a
\* template, a test without template, a template of another dimension, a
\* template that is not 2-D, a bad fps, no testId.
InitMsgs ==
    { InitMsg("finger-taping", "hands", "15", "T1"),
      InitMsg("finger-taping", "pose", "15", "T1"),
      InitMsg("finger-taping", "finger", "15", "T1"),
      InitMsg("tremor", "hands", "15", "T1"),
      InitMsg("fist_open_close", "hands", "15", "T1"),
      InitMsg("fist_open_close", "pose", "15", "T1"),
      InitMsg("finger-taping", "hands", "abc", "T1"),
      InitMsg("finger-taping", "hands", "15", None) }
FrameMsgs == [type : {"frame"}, data : Images \cup {Garbage}]
PauseMsgs == [type : {"pause"}, paused : BOOLEAN]
EndMsg == [type |-> "end"]
UnknownMsg == [type |-> "bogus"]
NotJson == [type |-> "<not a JSON object>"]
NoMsg == [type |-> "<none>"]

(* Server messages *)

ErrorAt(where, message) == [type |-> "error", where |-> where, message |-> message]
ErrorPlain(message) == [type |-> "error", message |-> message]
Status(st) == [type |-> "status", status |-> st]

Types(msgs) == {msgs[i].type : i \in 1..Len(msgs)}
Count(msgs, t) == Cardinality({i \in 1..Len(msgs) : msgs[i].type = t})
HasErrorAt(msgs, where) ==
    \E i \in 1..Len(msgs) :
        /\ msgs[i].type = "error"
        /\ "where" \in DOMAIN msgs[i]
        /\ msgs[i].where = where

----------------------------------------------------------------------------
(* The connection *)

\* The collaborators of one step: whether the MediaPipe graph raised, what
\* the video writer did, whether the database (routes) or the history file
\* (main.py) accepted the write.  NoEnv: none was called.
NoEnv == [crash |-> FALSE, writer |-> "unused", store |-> "unused"]
FrameEnv(crash) == [crash |-> crash, writer |-> "unused", store |-> "unused"]
EndEnv(w, ok) == [crash |-> FALSE, writer |-> w,
                  store |-> IF ok THEN "ok" ELSE "fails"]

\* What the client of a connection has seen and fed:
\*   arrived   number of `frame` messages it sent to an initialized session,
\*   last_idx  frame_idx of the last `keypoints` it was sent (0: none yet),
\*   fed       the frames the handler accepted since the scorer was created
\*             or last scored, each with what the MediaPipe graph did on it.
NoHist == [arrived |-> 0, last_idx |-> 0, fed |-> <<>>]

\* The frame was handed to the extractor (it was not refused before).
FrameAccepted(m, answer) ==
    /\ m.type = "frame"
    /\ answer # <<ErrorAt("frame", "Not initialized")>>
    /\ answer # <<ErrorAt("frame", "decode")>>

\* The `end` got past finalize_and_save with an ok result.
EndScored(m, answer, e) ==
    /\ m.type = "end"
    /\ e.writer # "unused"
    /\ "dtw_error" \notin Types(answer)

\* The init built a new extractor and a new scorer.
InitDone(m, answer) ==
    m.type = "init" /\ "status" \in Types(answer)

Noted(h, m, answer, e) ==
    [arrived |-> h.arrived +
                 (IF /\ m.type = "frame"
                     /\ answer # <<ErrorAt("frame", "Not initialized")>>
                  THEN 1 ELSE 0),
     last_idx |-> IF "keypoints" \in Types(answer)
                  THEN answer[Len(answer)].frame_idx ELSE h.last_idx,
     fed |-> IF FrameAccepted(m, answer)
             THEN Append(h.fed, [img |-> m.data, crash |-> e.crash])
             ELSE IF EndScored(m, answer, e) \/ InitDone(m, answer)
             THEN <<>> ELSE h.fed]

\* Every message received is counted and answered; `answer` is what the
\* server sent for it.
Received(c, m, answer, e) ==
    /\ hist' = [hist EXCEPT ![c] = Noted(@, m, answer, e)]
    /\ data' = [data EXCEPT ![c] = m]
    /\ env' = [env EXCEPT ![c] = e]
    /\ sent' = [sent EXCEPT ![c] = answer]
    /\ completes' = [completes EXCEPT ![c] = @ + Count(answer, "complete")]
    /\ nmsgs' = [nmsgs EXCEPT ![c] = @ + 1]

\* The locals of _camera_ws_handler before the loop; they are gone when the
\* handler returns.
ResetLocals(c) ==
    /\ frames' = [frames EXCEPT ![c] = <<>>]
    /\ fps_hint' = [fps_hint EXCEPT ![c] = DefaultFps]
    /\ patient_id' = [patient_id EXCEPT ![c] = None]
    /\ test_name' = [test_name EXCEPT ![c] = None]
    /\ test_id' = [test_id EXCEPT ![c] = None]
    /\ model' = [model EXCEPT ![c] = "hands"]
    /\ started' = [started EXCEPT ![c] = FALSE]
    /\ mp_extractor' = [mp_extractor EXCEPT ![c] = <<>>]
    /\ dtw_end' = [dtw_end EXCEPT ![c] = <<>>]

\* The outer `except Exception`: one error message, then the handler returns.
LoopExit(c, m) ==
    /\ Received(c, m, <<ErrorPlain("exception")>>, NoEnv)
    /\ alive' = [alive EXCEPT ![c] = FALSE]
    /\ ResetLocals(c)

CanReceive(c) == alive[c] /\ nmsgs[c] < MaxMsgs

----------------------------------------------------------------------------
(* init *)

\* mtype == "init".  MPExtractor(model) raises when MediaPipe is missing.
HandleInit(c, d) ==
    LET tn == NormalizeFor(app, d.testType)
        fps == ParseFloat(d.fps)
        failed == fps.raised \/ ~mp_ok
        obj == EndOnlyDTW(app, IF tn = "" THEN "unknown" ELSE tn, d.model, d.testId)
    IN  /\ patient_id' = [patient_id EXCEPT ![c] = d.patientId]
        /\ test_name' = [test_name EXCEPT ![c] = tn]
        /\ model' = [model EXCEPT ![c] = d.model]
        /\ fps_hint' = [fps_hint EXCEPT ![c] = IF fps.raised THEN @ ELSE fps.value]
        /\ test_id' = [test_id EXCEPT ![c] = IF fps.raised THEN @ ELSE d.testId]
        /\ mp_extractor' = [mp_extractor EXCEPT ![c] =
                               IF failed THEN @ ELSE <<MPExtractor(d.model)>>]
        /\ dtw_end' = [dtw_end EXCEPT ![c] = IF failed THEN @ ELSE <<obj>>]
        /\ started' = [started EXCEPT ![c] = ~failed]
        /\ Received(c, d,
              IF failed
              THEN <<ErrorAt("init", "exception")>>
              ELSE (IF obj.init_error # ""
                    THEN <<ErrorAt("init", obj.init_error)>>
                    ELSE <<>>)
                   \o <<Status("initialized")>>,
              NoEnv)
        /\ UNCHANGED <<app, mp_ok, alive, frames, storeVars, unit, dtw, norm, rest>>

RecvInit(c) ==
    /\ CanReceive(c)
    /\ \E d \in InitMsgs : HandleInit(c, d)

----------------------------------------------------------------------------
(* frame *)

Keypoints(m, idx, kp) ==
    [type |-> "keypoints", model |-> m, frame_idx |-> idx,
     error |-> kp.error, hands |-> kp.hands, pose |-> kp.pose]

\* A frame handler that buffers the payload before it checks the session
\* and decodes the image.
HandleFrameBufferFirst(c, d, crash) ==
    /\ frames' = [frames EXCEPT ![c] = Append(@, d.data)]
    /\ UNCHANGED dtw_end
    /\ IF ~started[c] \/ mp_extractor[c] = <<>>
       THEN Received(c, d, <<ErrorAt("frame", "Not initialized")>>, NoEnv)
       ELSE IF _decode_base64_image(d.data).raised
       THEN Received(c, d, <<ErrorAt("frame", "decode")>>, NoEnv)
       ELSE Received(c, d, <<Keypoints(model[c], Len(frames[c]) + 1,
                                       MPExtractor_process(mp_extractor[c][1], d.data))>>,
                     FrameEnv(FALSE))

\* mtype == "frame".  crash: the MediaPipe graph raises on this frame.
HandleFrame(c, d, crash) ==
    LET dec == _decode_base64_image(d.data)
        ext == mp_extractor[c][1]
        raises == crash /\ ext.solution # None
        kp == MPExtractor_process(ext, dec.frame)
        pushes == dtw_end[c] # <<>> /\ ~kp.error
        pushed == push(dtw_end[c][1], kp)
    IN  IF ~started[c] \/ mp_extractor[c] = <<>>
        THEN /\ Received(c, d, <<ErrorAt("frame", "Not initialized")>>, NoEnv)
             /\ UNCHANGED <<frames, dtw_end>>
        ELSE IF dec.raised
        THEN /\ Received(c, d, <<ErrorAt("frame", "decode")>>, NoEnv)
             /\ UNCHANGED <<frames, dtw_end>>
        ELSE /\ Len(frames[c]) < MaxFrames
             /\ frames' = [frames EXCEPT ![c] = Append(@, dec.frame)]
             /\ IF raises
                THEN /\ Received(c, d, <<ErrorAt("frame", "exception")>>, FrameEnv(TRUE))
                     /\ UNCHANGED dtw_end
                ELSE IF pushes
                THEN /\ dtw_end' = [dtw_end EXCEPT ![c] = <<pushed.obj>>]
                     /\ Received(c, d,
                           IF pushed.raised
                           THEN <<ErrorAt("frame", "exception")>>
                           ELSE <<Keypoints(model[c], Len(frames[c]) + 1, kp)>>,
                           FrameEnv(FALSE))
                ELSE /\ Received(c, d, <<Keypoints(model[c], Len(frames[c]) + 1, kp)>>,
                                 FrameEnv(FALSE))
                     /\ UNCHANGED dtw_end

RecvFrame(c) ==
    /\ CanReceive(c)
    /\ \E d \in FrameMsgs, crash \in BOOLEAN : HandleFrame(c, d, crash)
    /\ UNCHANGED <<app, mp_ok, alive, fps_hint, patient_id, test_name, test_id, model,
                   started, mp_extractor, storeVars, unit, dtw, norm, rest>>

----------------------------------------------------------------------------
(* pause, unknown type, text that is no JSON object, disconnect *)

\* A pause that takes effect in the session: pause{paused:true} drops the
\* frames buffered so far.
HandlePauseDropsFrames(c, d) ==
    /\ Received(c, d, <<Status(IF d.paused THEN "paused" ELSE "resumed")>>, NoEnv)
    /\ frames' = [frames EXCEPT ![c] = IF d.paused THEN <<>> ELSE @]
    /\ UNCHANGED <<app, mp_ok, alive, fps_hint, patient_id, test_name, test_id, model,
                   started, mp_extractor, dtw_end, storeVars, unit, dtw, norm, rest>>

HandlePause(c, d) ==
    /\ Received(c, d, <<Status(IF d.paused THEN "paused" ELSE "resumed")>>, NoEnv)
    /\ UNCHANGED <<app, mp_ok, alive, sessionVars, storeVars, unit, dtw, norm, rest>>

RecvPause(c) ==
    /\ CanReceive(c)
    /\ \E d \in PauseMsgs : HandlePause(c, d)

HandleUnknown(c, d) ==
    /\ Received(c, d, <<ErrorPlain("Unknown message")>>, NoEnv)
    /\ UNCHANGED <<app, mp_ok, alive, sessionVars, storeVars, unit, dtw, norm, rest>>

RecvUnknown(c) ==
    /\ CanReceive(c)
    /\ HandleUnknown(c, UnknownMsg)

\* json.loads raises, or the value has no .get: the outer except ends the loop.
RecvNotJson(c) ==
    /\ CanReceive(c)
    /\ LoopExit(c, NotJson)
    /\ UNCHANGED <<app, mp_ok, storeVars, unit, dtw, norm, rest>>

\* receive_text raises WebSocketDisconnect
Disconnect(c) ==
    /\ alive[c]
    /\ alive' = [alive EXCEPT ![c] = FALSE]
    /\ ResetLocals(c)
    /\ UNCHANGED <<app, mp_ok, data, sent, env, completes, nmsgs, hist, storeVars, unit, dtw, norm, rest>>

----------------------------------------------------------------------------
(* end *)

\* The three refusals at the head of the `end` branch: <<>> when none applies.
EndRefusal(c) ==
    IF ~started[c] THEN <<ErrorAt("end", "Test not initialized")>>
    ELSE IF frames[c] = <<>> THEN <<ErrorAt("end", "No frames received")>>
    ELSE IF dtw_end[c] = <<>> THEN <<ErrorAt("end", "DTW not initialized")>>
    ELSE <<>>

DtwError(c, payload) ==
    Merge([type |-> "dtw_error"],
          Merge(payload, [testName |-> test_name[c], model |-> model[c]]))

WriteFile(dir, name, content) ==
    {f \in dir : f.name # name} \cup {[name |-> name, frames |-> content]}

FileNames(dir) == {f.name : f \in dir}

\* The TestResult row built from the finalize result (its scalars and series
\* are the payload entries under RowKeys).
TestResultRow(c, payload, saved_name) ==
    [test_id |-> test_id[c],
     patient_id |-> IF patient_id[c] = None THEN "unknown" ELSE patient_id[c],
     test_name |-> IF test_name[c] \in {None, ""} THEN "unknown" ELSE test_name[c],
     model |-> model[c],
     fps |-> fps_hint[c],
     recording_file |-> saved_name,
     frame_count |-> Len(frames[c]),
     dtw |-> [k \in RowKeys |-> payload[k]]]

\* db.add / db.commit: the row is stored unless the database fails or the
\* primary key test_id is taken.
CanStore(dbOk, row) == dbOk /\ \A r \in rows : r.test_id # row.test_id

\* mtype == "end" in routes/websockets.py.  w: what the video writer does;
\* dbOk: the database accepts the transaction.
HandleEndRoutes(c, w, dbOk) ==
    LET fin == finalize_and_save(dtw_end[c][1])
        mp4 == _save_frames_to_mp4(test_id[c], frames[c], w)
        row == TestResultRow(c, fin.payload, mp4.filename)
        stored == RowKeys \subseteq DOMAIN fin.payload /\ CanStore(dbOk, row)
    IN  IF EndRefusal(c) # <<>>
        THEN /\ Received(c, EndMsg, EndRefusal(c), NoEnv)
             /\ UNCHANGED <<alive, sessionVars, storeVars>>
        ELSE IF fin.raised
        THEN /\ LoopExit(c, EndMsg)
             /\ UNCHANGED storeVars
        ELSE /\ dtw_runs' = dtw_runs \cup {fin.folder[i] : i \in 1..Len(fin.folder)}
             /\ UNCHANGED <<alive, fps_hint, patient_id, test_name, test_id, model,
                            started, mp_extractor, dtw_end, history, next_uuid>>
             /\ IF ~fin.payload.ok
                THEN /\ Received(c, EndMsg, <<DtwError(c, fin.payload)>>, NoEnv)
                     /\ UNCHANGED <<frames, recordings, rows>>
                ELSE IF mp4.raised
                THEN /\ Received(c, EndMsg, <<ErrorAt("save_mp4", "exception")>>,
                                 EndEnv(w, dbOk))
                     /\ frames' = [frames EXCEPT ![c] = <<>>]
                     /\ UNCHANGED <<recordings, rows>>
                ELSE /\ recordings' = WriteFile(recordings, mp4.filename, frames[c])
                     /\ rows' = IF stored THEN rows \cup {row} ELSE rows
                     /\ Received(c, EndMsg,
                           IF stored
                           THEN <<[type |-> "complete",
                                   testResultId |-> test_id[c],
                                   recording |-> mp4.filename,
                                   frame_count |-> Len(frames[c])]>>
                           ELSE <<ErrorAt("sql_save", "exception")>>,
                           EndEnv(w, dbOk))
                     /\ frames' = [frames EXCEPT ![c] = <<>>]

\* mtype == "end" in main.py.  histOk: the test-history file can be written.
HandleEndMain(c, w, histOk) ==
    LET fin == main_finalize_and_save(dtw_end[c][1])
        mp4 == main_save_frames_to_mp4(next_uuid + 1, frames[c], w)
        first == IF ~fin.payload.ok
                 THEN <<DtwError(c, fin.payload)>>
                 ELSE <<Merge([type |-> "dtw_saved"], fin.payload)>>
        entry == [patient_id |-> IF patient_id[c] = None THEN "unknown" ELSE patient_id[c],
                  test_name |-> IF test_name[c] \in {None, ""} THEN "unknown" ELSE test_name[c],
                  recording_file |-> mp4.filename,
                  frame_count |-> Len(frames[c])]
    IN  IF EndRefusal(c) # <<>>
        THEN /\ Received(c, EndMsg, EndRefusal(c), NoEnv)
             /\ UNCHANGED <<alive, sessionVars, storeVars>>
        ELSE IF fin.raised
        THEN /\ LoopExit(c, EndMsg)
             /\ UNCHANGED storeVars
        ELSE /\ dtw_runs' = dtw_runs \cup {fin.folder[i] : i \in 1..Len(fin.folder)}
             /\ UNCHANGED <<alive, fps_hint, patient_id, test_name, test_id, model,
                            started, mp_extractor, dtw_end, rows>>
             /\ frames' = [frames EXCEPT ![c] = <<>>]
             /\ IF mp4.raised
                THEN /\ Received(c, EndMsg, first \o <<ErrorAt("save_mp4", "exception")>>,
                                 EndEnv(w, histOk))
                     /\ UNCHANGED <<recordings, history, next_uuid>>
                ELSE /\ next_uuid' = next_uuid + 1
                     /\ recordings' = IF mp4.written
                                      THEN WriteFile(recordings, mp4.filename, frames[c])
                                      ELSE recordings
                     /\ history' = IF histOk THEN Append(history, entry) ELSE history
                     /\ Received(c, EndMsg,
                           first \o <<[type |-> "complete",
                                       recording |-> mp4.filename,
                                       frame_count |-> Len(frames[c])]>>,
                           EndEnv(w, histOk))

RecvEnd(c) ==
    /\ CanReceive(c)
    /\ \E w \in WriterOutcomes, ok \in BOOLEAN :
          IF app = "routes" THEN HandleEndRoutes(c, w, ok) ELSE HandleEndMain(c, w, ok)
    /\ UNCHANGED <<app, mp_ok, unit, dtw, norm, rest>>

----------------------------------------------------------------------------
(* The session engine: one accepted connection *)

InitLocals ==
    /\ frames = [c \in Conns |-> <<>>]
    /\ fps_hint = [c \in Conns |-> DefaultFps]
    /\ patient_id = [c \in Conns |-> None]
    /\ test_name = [c \in Conns |-> None]
    /\ test_id = [c \in Conns |-> None]
    /\ model = [c \in Conns |-> "hands"]
    /\ started = [c \in Conns |-> FALSE]
    /\ mp_extractor = [c \in Conns |-> <<>>]
    /\ dtw_end = [c \in Conns |-> <<>>]
    /\ data = [c \in Conns |-> NoMsg]
    /\ sent = [c \in Conns |-> <<>>]
    /\ env = [c \in Conns |-> NoEnv]
    /\ completes = [c \in Conns |-> 0]
    /\ nmsgs = [c \in Conns |-> 0]
    /\ hist = [c \in Conns |-> NoHist]

InitStores ==
    /\ recordings = {}
    /\ rows = {}
    /\ history = <<>>
    /\ dtw_runs = {}
    /\ next_uuid = 0

Init ==
    /\ app \in Apps
    /\ mp_ok \in BOOLEAN
    /\ alive = [c \in Conns |-> c = 1]
    /\ InitLocals
    /\ InitStores
    /\ unit = <<>>
    /\ dtw = <<>>
    /\ norm = <<>>
    /\ rest = <<>>

Next ==
    \E c \in Conns :
        \/ RecvInit(c)
        \/ RecvFrame(c)
        \/ RecvPause(c)
        \/ RecvEnd(c)
        \/ RecvUnknown(c)
        \/ RecvNotJson(c)
        \/ Disconnect(c)

Spec == Init /\ [][Next]_vars

----------------------------------------------------------------------------
(* EndOnlyDTW driven directly: an object is constructed and landmark
   records are pushed into it *)

\* Landmark records: no detection, a full hand, a hand with a landmark
\* missing, a full pose, a pose with a landmark missing.
LandmarkRecords ==
    { [error |-> FALSE, hands |-> <<>>, pose |-> 0, img |-> "blank"],
      [error |-> FALSE, hands |-> <<HandPoints>>, pose |-> 0, img |-> "hand"],
      [error |-> FALSE, hands |-> <<HandPoints - 1>>, pose |-> 0, img |-> "hand"],
      [error |-> FALSE, hands |-> <<>>, pose |-> PosePoints, img |-> "body"],
      [error |-> FALSE, hands |-> <<>>, pose |-> PosePoints - 1, img |-> "body"] }

UnitPush(kp) ==
    /\ unit # <<>>
    /\ unit[1].pushed_frames < MaxPushes
    /\ unit' = <<push(unit[1], kp).obj>>
    /\ UNCHANGED <<app, mp_ok, connVars, sessionVars, storeVars, dtw, norm, rest>>

InitPush ==
    /\ app \in Apps
    /\ mp_ok = TRUE
    /\ alive = [c \in Conns |-> FALSE]
    /\ InitLocals
    /\ InitStores
    /\ unit \in {<<EndOnlyDTW(app, t, m, "T1")>> :
                    t \in {"finger-taping", "tremor"}, m \in Models}
    /\ dtw = <<>>
    /\ norm = <<>>
    /\ rest = <<>>

NextPush == \E kp \in LandmarkRecords : UnitPush(kp)

SpecPush == InitPush /\ [][NextPush]_vars

----------------------------------------------------------------------------
(* Properties of the session engine *)

\* Connection c handled one message of type t in this step.
Handled(c, t) == nmsgs'[c] = nmsgs[c] + 1 /\ data'[c].type = t

LocalsUnchanged(c) ==
    /\ frames'[c] = frames[c]
    /\ fps_hint'[c] = fps_hint[c]
    /\ patient_id'[c] = patient_id[c]
    /\ test_name'[c] = test_name[c]
    /\ test_id'[c] = test_id[c]
    /\ model'[c] = model[c]
    /\ started'[c] = started[c]
    /\ mp_extractor'[c] = mp_extractor[c]
    /\ dtw_end'[c] = dtw_end[c]

\* The session of c is started, holds frames and at least one feature, and
\* its template loaded with the dimension of the features.
EndReady(c) ==
    /\ started[c]
    /\ frames[c] # <<>>
    /\ dtw_end[c] # <<>>
    /\ dtw_end[c][1].init_error = ""
    /\ dtw_end[c][1].buf # <<>>
    /\ dtw_end[c][1].X_ref # <<>>
    /\ dtw_end[c][1].buf[1].dim = dtw_end[c][1].X_ref[1].dim
    /\ test_id[c] # None

\* C1: on one connection the server never sends a second `complete`,
\* whatever frame and end messages follow the first end that completed.
C1_CompleteAtMostOnce == \A c \in Conns : completes[c] <= 1

\* C2: in routes/websockets.py an `end` in a started session with a built
\* feature, a template of the same dimension, a working MP4 writer and a
\* working database stores one TestResult row and sends `complete`, and
\* does not send error{where:"sql_save"}.
C2_EndStoresRow ==
    [][\A c \in Conns :
          (/\ app = "routes"
           /\ EndReady(c)
           /\ Handled(c, "end")
           /\ env'[c].writer = "ok"
           /\ env'[c].store = "ok")
          => /\ \E r \in rows' \ rows :
                   /\ r.test_id = test_id[c]
                   /\ r.recording_file \in FileNames(recordings')
             /\ "complete" \in Types(sent'[c])
             /\ ~HasErrorAt(sent'[c], "sql_save")]_vars

\* C3: after any sequence of push calls, for every model and every landmark
\* record, features_built + feature_drops = frames_seen and the feature
\* buffer holds features_built vectors.
C3_PushCounters ==
    unit # <<>> =>
        /\ unit[1].pushed_feats + unit[1].pushed_drops = unit[1].pushed_frames
        /\ Len(unit[1].buf) = unit[1].pushed_feats

\* C5: the TestResult row and the MP4 of a session exist together or not at
\* all: a row names a file that exists, and after error{where:"sql_save"}
\* the MP4 written for the session is not on disk.
C5_RowAndMp4Together ==
    /\ \A r \in rows : r.recording_file \in FileNames(recordings)
    /\ \A c \in Conns :
          (/\ app = "routes"
           /\ data[c].type = "end"
           /\ HasErrorAt(sent[c], "sql_save"))
          => ("ws_recording_" \o test_id[c] \o ".mp4") \notin FileNames(recordings)

\* C6: in both handlers, an `end` answered with `dtw_error` persists
\* nothing: no MP4, no TestResult row, no test-history entry, and no
\* `complete` is sent.
C6_ScoringErrorPersistsNothing ==
    [][\A c \in Conns :
          (Handled(c, "end") /\ "dtw_error" \in Types(sent'[c]))
          => /\ "complete" \notin Types(sent'[c])
             /\ recordings' = recordings
             /\ rows' = rows
             /\ history' = history]_vars

\* The init message names a template that cannot be loaded or a model the
\* extractor does not support.
InitCannotRun(d) ==
    \/ ~TemplateLibrary_load(app,
           IF NormalizeFor(app, d.testType) = "" THEN "unknown"
           ELSE NormalizeFor(app, d.testType), d.model).ok
    \/ MPExtractor(d.model).solution = None

\* The session of c was set up by such an init.
SetupFailed(c) ==
    /\ dtw_end[c] # <<>>
    /\ mp_extractor[c] # <<>>
    /\ \/ dtw_end[c][1].init_error # ""
       \/ mp_extractor[c][1].solution = None

\* C7: an init whose template cannot be loaded or whose model is
\* unsupported is answered with error{where:"init"} and no status
\* "initialized", leaves the session not started, and every later frame
\* and end is refused: no frame is buffered, no keypoints are sent and
\* finalize is not run.
C7_SetupFailureRefused ==
    [][\A c \in Conns :
          /\ (Handled(c, "init") /\ InitCannotRun(data'[c]))
             => /\ HasErrorAt(sent'[c], "init")
                /\ "status" \notin Types(sent'[c])
                /\ ~started'[c]
          /\ (SetupFailed(c) /\ (Handled(c, "frame") \/ Handled(c, "end")))
             => /\ frames'[c] = frames[c]
                /\ "keypoints" \notin Types(sent'[c])
                /\ "dtw_error" \notin Types(sent'[c])]_vars

\* C8: an `end` received in a started session with zero built features
\* (an empty frame set included) is answered with the no-features
\* dtw_error, stores no row and no MP4, and leaves the session as it is.
C8_EndWithoutFeatures ==
    [][\A c \in Conns :
          (/\ app = "routes"
           /\ started[c]
           /\ dtw_end[c] # <<>>
           /\ dtw_end[c][1].buf = <<>>
           /\ Handled(c, "end"))
          => /\ "dtw_error" \in Types(sent'[c])
             /\ recordings' = recordings
             /\ rows' = rows
             /\ started'[c]
             /\ dtw_end'[c] = dtw_end[c]]_vars

\* The message handled in this step is a protocol error: a frame or end
\* before a successful init, an unknown type, or a frame whose payload
\* cannot be decoded.
ProtocolError(c) ==
    \/ (Handled(c, "frame") \/ Handled(c, "end")) /\ ~started[c]
    \/ Handled(c, UnknownMsg.type)
    \/ Handled(c, "frame") /\ data'[c].data = Garbage

\* C9: a protocol error is answered with an `error` message and leaves
\* every session variable unchanged; a frame before init is answered with
\* error{where:"frame", message:"Not initialized"}.
C9_ProtocolErrorKeepsState ==
    [][\A c \in Conns :
          ProtocolError(c)
          => /\ sent'[c] # <<>>
             /\ Types(sent'[c]) = {"error"}
             /\ LocalsUnchanged(c)
             /\ alive'[c]
             /\ (Handled(c, "frame") /\ ~started[c])
                => sent'[c] = <<ErrorAt("frame", "Not initialized")>>]_vars

\* C9 witness: a started session holding frames and a feature has answered
\* a frame with an undecodable payload.
C9_Witness ==
    \E c \in Conns :
        /\ started[c]
        /\ frames[c] # <<>>
        /\ dtw_end[c] # <<>>
        /\ dtw_end[c][1].buf # <<>>
        /\ data[c].type = "frame"
        /\ data[c].data = Garbage
        /\ HasErrorAt(sent[c], "frame")

\* C10: a frame of a started session on which landmark extraction fails
\* (the extractor raises or returns an error result) is answered with
\* error{where:"frame"} and no keypoints, and leaves the frame buffer, the
\* feature buffer and the counters as they were.
C10_ExtractorFailureKeepsBuffers ==
    [][\A c \in Conns :
          (/\ started[c]
           /\ mp_extractor[c] # <<>>
           /\ Handled(c, "frame")
           /\ data'[c].data \in Images
           /\ (env'[c].crash \/ mp_extractor[c][1].solution = None))
          => /\ HasErrorAt(sent'[c], "frame")
             /\ "keypoints" \notin Types(sent'[c])
             /\ frames'[c] = frames[c]
             /\ dtw_end'[c] = dtw_end[c]]_vars

\* C11: every `keypoints` response carries a frame_idx greater than that of
\* the previous `keypoints` on the connection and equal to the position of
\* its frame among the frames that arrived in the session, also after a
\* decode failure, a dtw_error or a finished `end`.
C11_FrameIdxArrivalOrder ==
    [][\A c \in Conns :
          (Handled(c, "frame") /\ "keypoints" \in Types(sent'[c]))
          => /\ sent'[c][1].frame_idx > hist[c].last_idx
             /\ sent'[c][1].frame_idx = hist'[c].arrived]_vars

\* C12: a `pause` message changes no session state and nothing stored, so
\* a message sequence with or without it leaves the same buffers, counters
\* and `end` outcome; a frame that follows pause{paused:true} is still
\* buffered and run through the extractor.
C12_PauseIsAdvisory ==
    [][\A c \in Conns :
          /\ Handled(c, "pause")
             => /\ LocalsUnchanged(c)
                /\ UNCHANGED storeVars
                /\ alive'[c]
                /\ hist'[c] = hist[c]
                /\ sent'[c] = <<Status(IF data'[c].paused THEN "paused" ELSE "resumed")>>
          /\ (/\ data[c].type = "pause"
              /\ data[c].paused
              /\ started[c]
              /\ mp_extractor[c] # <<>>
              /\ Handled(c, "frame")
              /\ data'[c].data \in Images)
             => /\ frames'[c] = Append(frames[c], data'[c].data)
                /\ hist'[c].fed = Append(hist[c].fed,
                                         [img |-> data'[c].data, crash |-> env'[c].crash])
                /\ ~env'[c].crash => "keypoints" \in Types(sent'[c])]_vars

\* C12 witness: pause{paused:true} was answered in a started session that
\* holds a frame and a feature.
C12_Witness ==
    \E c \in Conns :
        /\ data[c].type = "pause"
        /\ data[c].paused
        /\ sent[c] = <<Status("paused")>>
        /\ started[c]
        /\ frames[c] # <<>>
        /\ dtw_end[c] # <<>>
        /\ dtw_end[c][1].buf # <<>>

\* C13: in every reachable state the feature buffer of a session holds at
\* most as many vectors as its frame buffer holds frames, also for frames
\* received after an `end` was processed.
C13_FeaturesAtMostFrames ==
    \A c \in Conns :
        dtw_end[c] # <<>> => Len(dtw_end[c][1].buf) <= Len(frames[c])

----------------------------------------------------------------------------
(* The DTW engine: tslearn.metrics.dtw_path as _dtw_with_optional_sakoe
   calls it.  Indices start at 0 as in the code.  Every distance is kept as
   its square (dtw_path returns the square root of the accumulated squared
   cost), so that the arithmetic stays in the integers: a distance is 0 iff
   its square is 0 and it is at most 1 iff its square is at most 1. *)

MaxLive == 3      \* feature vectors in the live matrix of a scoring call

\* The feature vectors of the scoring calls.  They lie on one line through
\* the origin, which makes every product of two squared norms a perfect
\* square and the amplitude and speed channels exact.
FeatureVectors == {<<0, 0>>, <<1, 1>>, <<2, 2>>}
LiveMatrices == UNION {[1..n -> FeatureVectors] : n \in 1..MaxLive}

\* The reference matrices X_ref of the scoring calls.
RefMatrices ==
    { << <<1, 1>> >>,
      << <<0, 0>>, <<1, 1>> >>,
      << <<0, 0>>, <<2, 2>>, <<1, 1>> >>,
      << <<0, 0>>, <<1, 1>>, <<2, 2>>, <<1, 1>> >> }

MinOf(S) == CHOOSE x \in S : \A y \in S : x <= y
MaxOf(S) == CHOOSE x \in S : \A y \in S : x >= y

\* The integer square root of a perfect square.
ISqrt(n) == CHOOSE k \in 0..n : k * k = n

RECURSIVE SumSq(_)
SumSq(v) == IF v = <<>> THEN 0 ELSE v[1] * v[1] + SumSq(Tail(v))

\* numpy.linalg.norm(u - v) squared
SqDist(u, v) == SumSq([k \in 1..Len(u) |-> u[k] - v[k]])

\* (sqrt(a) - sqrt(b)) squared, for the squares a and b of two norms
RootGapSq(a, b) == a + b - 2 * ISqrt(a * b)

\* Cells (i, j) of an sz1 x sz2 matrix
Cells(sz1, sz2) == (0..(sz1 - 1)) \X (0..(sz2 - 1))

\* tslearn sakoe_chiba_mask: the cells left finite.  The band is widened by
\* the difference of the two lengths.
sakoe_chiba_mask(sz1, sz2, radius) ==
    IF sz1 > sz2
    THEN LET width == sz1 - sz2 + radius
         IN  {cell \in Cells(sz1, sz2) :
                 /\ MaxOf({0, cell[2] - radius}) <= cell[1]
                 /\ cell[1] <= MinOf({sz1, cell[2] + width})}
    ELSE LET width == sz2 - sz1 + radius
         IN  {cell \in Cells(sz1, sz2) :
                 /\ MaxOf({0, cell[1] - radius}) <= cell[2]
                 /\ cell[2] <= MinOf({sz2, cell[1] + width})}

\* tslearn compute_mask: radius is <<>> (no constraint) or <<r>>.
compute_mask(sz1, sz2, radius) ==
    IF radius = <<>> THEN Cells(sz1, sz2)
    ELSE sakoe_chiba_mask(sz1, sz2, radius[1])

\* An accumulated cost is <<>> (inf) or <<value>>.
LessEq(a, b) == b = <<>> \/ (a # <<>> /\ a[1] <= b[1])

\* tslearn njit_accumulated_matrix, filled cell by cell in row-major order:
\* cell k is (k div sz2, k mod sz2); C holds the squared local distances.
RECURSIVE AccFill(_, _, _, _, _, _)
AccFill(C, mask, sz1, sz2, k, acc) ==
    IF k = sz1 * sz2
    THEN acc
    ELSE LET i == k \div sz2
             j == k % sz2
             cum(a, b) == IF a = -1 /\ b = -1 THEN <<0>>
                          ELSE IF a = -1 \/ b = -1 THEN <<>>
                          ELSE acc[<<a, b>>]
             around == {cum(i - 1, j), cum(i, j - 1), cum(i - 1, j - 1)} \ {<<>>}
             value == IF <<i, j>> \notin mask \/ around = {}
                      THEN <<>>
                      ELSE <<C[<<i, j>>] + MinOf({x[1] : x \in around})>>
         IN  AccFill(C, mask, sz1, sz2, k + 1, [acc EXCEPT ![<<i, j>>] = value])

njit_accumulated_matrix(C, mask, sz1, sz2) ==
    AccFill(C, mask, sz1, sz2, 0, [cell \in Cells(sz1, sz2) |-> <<>>])

\* tslearn _return_path: walk back from (i, j) to (0, 0); numpy.argmin takes
\* the first minimum of (diagonal, up, left).
RECURSIVE PathTo(_, _, _)
PathTo(acc, i, j) ==
    IF i = 0 /\ j = 0 THEN << <<0, 0>> >>
    ELSE IF i = 0 THEN Append(PathTo(acc, 0, j - 1), <<i, j>>)
    ELSE IF j = 0 THEN Append(PathTo(acc, i - 1, 0), <<i, j>>)
    ELSE LET diag == acc[<<i - 1, j - 1>>]
             up == acc[<<i - 1, j>>]
             left == acc[<<i, j - 1>>]
         IN  IF LessEq(diag, up) /\ LessEq(diag, left)
             THEN Append(PathTo(acc, i - 1, j - 1), <<i, j>>)
             ELSE IF LessEq(up, left)
             THEN Append(PathTo(acc, i - 1, j), <<i, j>>)
             ELSE Append(PathTo(acc, i, j - 1), <<i, j>>)

\* A walk back that stops as soon as it reaches the first row or column.
RECURSIVE PathToEdge(_, _, _)
PathToEdge(acc, i, j) ==
    IF i = 0 \/ j = 0 THEN << <<i, j>> >>
    ELSE LET diag == acc[<<i - 1, j - 1>>]
             up == acc[<<i - 1, j>>]
             left == acc[<<i, j - 1>>]
         IN  IF LessEq(diag, up) /\ LessEq(diag, left)
             THEN Append(PathToEdge(acc, i - 1, j - 1), <<i, j>>)
             ELSE IF LessEq(up, left)
             THEN Append(PathToEdge(acc, i - 1, j), <<i, j>>)
             ELSE Append(PathToEdge(acc, i, j - 1), <<i, j>>)

ReturnPathToEdge(acc, sz1, sz2) == PathToEdge(acc, sz1 - 1, sz2 - 1)

_return_path(acc, sz1, sz2) == PathTo(acc, sz1 - 1, sz2 - 1)

\* tslearn dtw_path on two series of lengths sz1 and sz2 whose squared local
\* distances are C: [path, total_sq], total_sq being <<>> for inf.
dtw_path(C, sz1, sz2, radius) ==
    LET acc == njit_accumulated_matrix(C, compute_mask(sz1, sz2, radius), sz1, sz2)
    IN  [path |-> _return_path(acc, sz1, sz2),
         total_sq |-> acc[<<sz1 - 1, sz2 - 1>>]]

\* _dtw_with_optional_sakoe: sakoe_radius is <<>> (None) or <<r>>.
_dtw_with_optional_sakoe(C, sz1, sz2, sakoe_radius) ==
    dtw_path(C, sz1, sz2, sakoe_radius)

\* The squared local distances of the three channels
PosCost(X, Y) ==
    [cell \in Cells(Len(X), Len(Y)) |-> SqDist(X[cell[1] + 1], Y[cell[2] + 1])]

\* calculate_amplitude: the norm of each row, as its square
calculate_amplitude(X) == [i \in 1..Len(X) |-> SumSq(X[i])]

\* calculate_speed: the norm of each row difference, as its square; the
\* first row is prepended, so the first difference is 0.
calculate_speed(X) ==
    [i \in 1..Len(X) |-> IF i = 1 THEN 0 ELSE SqDist(X[i], X[i - 1])]

ScalarCost(A, B) ==
    [cell \in Cells(Len(A), Len(B)) |-> RootGapSq(A[cell[1] + 1], B[cell[2] + 1])]

\* An alignment that keeps the first j the path pairs with i.
AlignedRefFirst(path, n) ==
    [i \in 1..n |->
        LET hits == {k \in 1..Len(path) : path[k][1] = i - 1}
        IN  IF hits = {} THEN -1 ELSE path[MinOf(hits)][2]]

\* np.full(n, -1) overwritten along the path: entry i is the last j the
\* path pairs with i.
AlignedRefByLive(path, n) ==
    [i \in 1..n |->
        LET hits == {k \in 1..Len(path) : path[k][1] = i - 1}
        IN  IF hits = {} THEN -1 ELSE path[MaxOf(hits)][2]]

\* The local cost of every pair of the path, squared
LocalCosts(C, path) == [k \in 1..Len(path) |-> C[path[k]]]

\* One channel of finalize_and_save: the DTW of two series and the arrays
\* derived from its path.
Channel(C, sz1, sz2, sakoe_radius) ==
    LET res == _dtw_with_optional_sakoe(C, sz1, sz2, sakoe_radius)
    IN  [path |-> res.path,
         total_sq |-> res.total_sq[1],
         local_costs_sq |-> LocalCosts(C, res.path),
         aligned_ref_by_live |-> AlignedRefByLive(res.path, sz1)]

\* The sakoe_radius EndOnlyDTW.__init__ keeps for a constructor argument:
\* "auto" is a tenth of the template length, an int is used as given, both
\* raised to at least 1; anything else is None.
NoRadius == [kind |-> "none"]
AutoRadius == [kind |-> "auto"]
IntRadius(r) == [kind |-> "int", value |-> r]
SakoeArgs == {NoRadius, AutoRadius, IntRadius(0), IntRadius(1)}

sakoe_radius_of(arg, X_ref) ==
    IF arg.kind = "auto"
    THEN <<MaxOf({1, (IF X_ref # <<>> THEN Len(X_ref[1]) ELSE 1) \div 10})>>
    ELSE IF arg.kind = "int"
    THEN <<MaxOf({1, arg.value})>>
    ELSE <<>>

\* EndOnlyDTW.finalize_and_save on a live matrix X (the stacked buf) and a
\* template X_ref (<<>> or <<Y>>): the refusals, then the three channels.
\* similarity_c is assigned the DTW total of the channel (S_pos = pos_total,
\* S_amp = amp_total, S_spd = s_total); normalize_dtw is not called.
finalize_scores(X, X_ref, sakoe_radius) ==
    IF X = <<>> \/ X_ref = <<>>
    THEN [ok |-> FALSE, message |-> "No features or template missing"]
    ELSE IF Len(X[1]) # Len(X_ref[1][1])
    THEN [ok |-> FALSE, message |-> "Dim mismatch"]
    ELSE LET Y == X_ref[1]
             AX == calculate_amplitude(X)
             AY == calculate_amplitude(Y)
             SX == calculate_speed(X)
             SY == calculate_speed(Y)
             amp == Channel(ScalarCost(AX, AY), Len(AX), Len(AY), sakoe_radius)
             spd == Channel(ScalarCost(SX, SY), Len(SX), Len(SY), sakoe_radius)
             pos == Channel(PosCost(X, Y), Len(X), Len(Y), sakoe_radius)
         IN  [ok |-> TRUE,
              pos |-> pos, amp |-> amp, spd |-> spd,
              similarity_pos_sq |-> pos.total_sq,
              similarity_amp_sq |-> amp.total_sq,
              similarity_spd_sq |-> spd.total_sq]

(* Scoring calls: the engine and finalize driven directly on a live matrix
   and a template *)

DtwRadii == {<<>>, <<0>>, <<1>>}

\* _dtw_with_optional_sakoe(X, Y, radius) on the position channel
DtwCall(radius) ==
    /\ dtw # <<>>
    /\ dtw[1].out = <<>>
    /\ dtw' = <<[dtw[1] EXCEPT !.out =
                   <<[call |-> "dtw_path", radius |-> radius,
                      res |-> _dtw_with_optional_sakoe(
                                  PosCost(dtw[1].X, dtw[1].Y),
                                  Len(dtw[1].X), Len(dtw[1].Y), radius)]>>]>>
    /\ UNCHANGED <<app, mp_ok, connVars, sessionVars, storeVars, unit, norm, rest>>

\* EndOnlyDTW(..., sakoe_radius = arg) with buf = X and X_ref = Y, finalized
FinalizeCall(arg) ==
    /\ dtw # <<>>
    /\ dtw[1].out = <<>>
    /\ dtw' = <<[dtw[1] EXCEPT !.out =
                   <<[call |-> "finalize", arg |-> arg,
                      radius |-> sakoe_radius_of(arg, <<dtw[1].Y>>),
                      res |-> finalize_scores(dtw[1].X, <<dtw[1].Y>>,
                                  sakoe_radius_of(arg, <<dtw[1].Y>>))]>>]>>
    /\ UNCHANGED <<app, mp_ok, connVars, sessionVars, storeVars, unit, norm, rest>>

InitDtw ==
    /\ app = "routes"
    /\ mp_ok = TRUE
    /\ alive = [c \in Conns |-> FALSE]
    /\ InitLocals
    /\ InitStores
    /\ unit = <<>>
    /\ norm = <<>>
    /\ rest = <<>>
    /\ dtw \in {<<[X |-> X, Y |-> Y, out |-> <<>>]>> :
                   X \in LiveMatrices, Y \in RefMatrices}

NextDtw ==
    \/ \E radius \in DtwRadii : DtwCall(radius)
    \/ \E arg \in SakoeArgs : FinalizeCall(arg)

SpecDtw == InitDtw /\ [][NextDtw]_vars

----------------------------------------------------------------------------
(* Properties of the scoring calls *)

\* The result of the scoring call, when it was made with `call`.
Out(call) == IF dtw # <<>> /\ dtw[1].out # <<>> /\ dtw[1].out[1].call = call
             THEN dtw[1].out ELSE <<>>

\* The warping paths a scoring call returned, each with the lengths of the
\* two series it aligns.
PathsOut ==
    {[path |-> Out("dtw_path")[k].res.path, sz1 |-> Len(dtw[1].X), sz2 |-> Len(dtw[1].Y)] :
        k \in 1..Len(Out("dtw_path"))}
    \cup
    UNION {{[path |-> Out("finalize")[k].res.pos.path,
             sz1 |-> Len(dtw[1].X), sz2 |-> Len(dtw[1].Y)],
            [path |-> Out("finalize")[k].res.amp.path,
             sz1 |-> Len(dtw[1].X), sz2 |-> Len(dtw[1].Y)],
            [path |-> Out("finalize")[k].res.spd.path,
             sz1 |-> Len(dtw[1].X), sz2 |-> Len(dtw[1].Y)]} :
           k \in {k \in 1..Len(Out("finalize")) : Out("finalize")[k].res.ok}}

AllowedMoves == {<<1, 0>>, <<0, 1>>, <<1, 1>>}

WellFormed(path, sz1, sz2) ==
    /\ path # <<>>
    /\ path[1] = <<0, 0>>
    /\ path[Len(path)] = <<sz1 - 1, sz2 - 1>>
    /\ \A k \in 1..(Len(path) - 1) :
          <<path[k + 1][1] - path[k][1], path[k + 1][2] - path[k][2]>> \in AllowedMoves

\* C14: for every pair of non-empty sequences, with or without a
\* Sakoe-Chiba band, the path the DTW engine returns starts at (0,0), ends
\* at (|A|-1, |B|-1) and moves only by (+1,0), (0,+1) or (+1,+1), so both
\* index components never decrease.
C14_PathWellFormed ==
    \A p \in PathsOut : WellFormed(p.path, p.sz1, p.sz2)

\* C14 witness: the engine returned a path of several steps for two
\* sequences of different lengths under a band of radius 0.
C14_Witness ==
    /\ Out("dtw_path") # <<>>
    /\ Out("dtw_path")[1].radius = <<0>>
    /\ Len(dtw[1].X) # Len(dtw[1].Y)
    /\ Len(Out("dtw_path")[1].res.path) >= 3

\* The three channels of a finalize that succeeded.
ChannelsOut ==
    UNION {{Out("finalize")[k].res.pos, Out("finalize")[k].res.amp,
            Out("finalize")[k].res.spd} :
           k \in {k \in 1..Len(Out("finalize")) : Out("finalize")[k].res.ok}}

\* aligned holds, for each live index, the last reference index the path
\* pairs with it.
LastPaired(ch, live_len) ==
    /\ Len(ch.aligned_ref_by_live) = live_len
    /\ \A i \in 1..live_len :
          /\ ch.aligned_ref_by_live[i] # -1
          /\ \E k \in 1..Len(ch.path) : ch.path[k] = <<i - 1, ch.aligned_ref_by_live[i]>>
          /\ \A k \in 1..Len(ch.path) :
                ch.path[k][1] = i - 1 => ch.path[k][2] <= ch.aligned_ref_by_live[i]

ExampleLive == << <<0, 0>>, <<0, 0>>, <<1, 1>> >>
ExampleRef == << <<0, 0>>, <<1, 1>> >>

ScoresOut ==
    {Out("finalize")[k].res :
        k \in {k \in 1..Len(Out("finalize")) : Out("finalize")[k].res.ok}}

\* C16: for every finalize that succeeds, similarity_pos, similarity_amp
\* and similarity_spd lie in [0,1], whatever the DTW distance of the
\* channel is (a value is in [0,1] iff its square is).
C16_SimilarityInUnitInterval ==
    \A r \in ScoresOut :
        /\ 0 <= r.similarity_pos_sq /\ r.similarity_pos_sq <= 1
        /\ 0 <= r.similarity_amp_sq /\ r.similarity_amp_sq <= 1
        /\ 0 <= r.similarity_spd_sq /\ r.similarity_spd_sq <= 1

\* C17: when the live matrix equals the template, finalize reports distance
\* 0 and similarity 1 on the position, amplitude and speed channels.
C17_SelfMatchScoresOne ==
    \A r \in ScoresOut :
        dtw[1].X = dtw[1].Y
        => /\ r.pos.total_sq = 0 /\ r.similarity_pos_sq = 1
           /\ r.amp.total_sq = 0 /\ r.similarity_amp_sq = 1
           /\ r.spd.total_sq = 0 /\ r.similarity_spd_sq = 1

----------------------------------------------------------------------------
(* Replay *)

\* The scorer a fresh session holds after it was fed the frames `fed`:
\* each frame the extractor did not fail on is pushed.
RECURSIVE ReplayPush(_, _, _)
ReplayPush(obj, ext, fed) ==
    IF fed = <<>> THEN obj
    ELSE LET kp == MPExtractor_process(ext, fed[1].img)
         IN  ReplayPush(IF fed[1].crash \/ kp.error THEN obj ELSE push(obj, kp).obj,
                        ext, Tail(fed))

Replayed(c) ==
    ReplayPush([dtw_end[c][1] EXCEPT !.buf = <<>>, !.pushed_frames = 0,
                                     !.pushed_feats = 0, !.pushed_drops = 0],
               mp_extractor[c][1], hist[c].fed)

\* C18: the arrays an `end` reports are those of a fresh session fed the
\* same frames: replaying a frame stream, in a second session or on the
\* same connection after its first `end`, gives identical local_costs and
\* aligned_ref_by_live arrays.
C18_ReplayGivesSameArrays ==
    [][\A c \in Conns :
          (Handled(c, "end") /\ EndScored(data'[c], sent'[c], env'[c]))
          => ChannelScores(dtw_end[c][1]) = ChannelScores(Replayed(c))]_vars

----------------------------------------------------------------------------
(* Band and template validation *)

\* C19: with a Sakoe-Chiba radius of 0 and series of different lengths,
\* scoring fails: the engine returns no warping path, and a scorer built
\* with sakoe_radius = 0 reports a scoring error instead of scores.
C19_RadiusZeroUnequalFails ==
    Len(dtw[1].X) # Len(dtw[1].Y)
    => /\ \A k \in 1..Len(Out("dtw_path")) :
              Out("dtw_path")[k].radius = <<0>> => Out("dtw_path")[k].res.path = <<>>
       /\ \A k \in 1..Len(Out("finalize")) :
              Out("finalize")[k].arg = IntRadius(0) => ~Out("finalize")[k].res.ok

\* The feature dimensions a template of the model may have.
ExpectedDims(m) ==
    IF m = "hands" THEN {42}
    ELSE IF m = "pose" THEN {66, 99}
    ELSE IF m = "finger" THEN {8}
    ELSE {}

\* C20: a scorer holds a template only when TemplateLibrary.load validated
\* it: the matrix has at least 2 rows and the column count expected for the
\* model (hands 42, pose 66 or 99, finger 8); any other stored template is
\* a template error.
C20_TemplateValidated ==
    \A c \in Conns :
        (dtw_end[c] # <<>> /\ dtw_end[c][1].X_ref # <<>>)
        => /\ dtw_end[c][1].X_ref[1].rows >= 2
           /\ dtw_end[c][1].X_ref[1].dim \in ExpectedDims(dtw_end[c][1].model)

----------------------------------------------------------------------------
(* Feature extraction on absent landmarks *)

\* The landmarks the model needs are absent from the record: no detected
\* hand or a hand of fewer than 21 points (hands, finger), fewer than 33
\* pose points (pose).
LandmarksAbsent(m, kp) ==
    IF m \in {"hands", "finger"}
    THEN kp.hands = <<>> \/ kp.hands[1] < 21
    ELSE m = "pose" /\ kp.pose < 33

\* C21: feature extraction on a record whose required landmarks are absent
\* returns drop without raising: a push of such a record counts one drop
\* and adds no feature.
C21_AbsentLandmarksDrop ==
    [][\A kp \in LandmarkRecords :
          (/\ unit # <<>>
           /\ unit' = <<push(unit[1], kp).obj>>
           /\ LandmarksAbsent(unit[1].model, kp))
          => /\ unit'[1].pushed_drops = unit[1].pushed_drops + 1
             /\ unit'[1].buf = unit[1].buf]_vars

----------------------------------------------------------------------------
(* Test-name normalisation driven directly: a name is given to one of the
   three normalisation functions *)

RawNames == DOMAIN Spelling

\* normalize_test_name(name) of routes/utils_dtw.py (websockets.py, videos.py)
NormalizeCall ==
    /\ norm # <<>>
    /\ norm[1].out = <<>>
    /\ norm' = <<[norm[1] EXCEPT !.out =
                    <<[by |-> "normalize_test_name",
                       value |-> normalize_test_name(norm[1].name)]>>]>>
    /\ UNCHANGED <<app, mp_ok, connVars, sessionVars, storeVars, unit, dtw, rest>>

\* normalize_test_name(name) of utils_dtw.py (main.py)
MainNormalizeCall ==
    /\ norm # <<>>
    /\ norm[1].out = <<>>
    /\ norm' = <<[norm[1] EXCEPT !.out =
                    <<[by |-> "main.normalize_test_name",
                       value |-> main_normalize_test_name(norm[1].name)]>>]>>
    /\ UNCHANGED <<app, mp_ok, connVars, sessionVars, storeVars, unit, dtw, rest>>

\* _normalize_test_name(name) of patient_manager.py
ManagerNormalizeCall ==
    /\ norm # <<>>
    /\ norm[1].out = <<>>
    /\ norm' = <<[norm[1] EXCEPT !.out =
                    <<[by |-> "_normalize_test_name",
                       value |-> _normalize_test_name(norm[1].name)]>>]>>
    /\ UNCHANGED <<app, mp_ok, connVars, sessionVars, storeVars, unit, dtw, rest>>

InitNorm ==
    /\ app = "routes"
    /\ mp_ok = TRUE
    /\ alive = [c \in Conns |-> FALSE]
    /\ InitLocals
    /\ InitStores
    /\ unit = <<>>
    /\ dtw = <<>>
    /\ rest = <<>>
    /\ norm \in {<<[name |-> t, out |-> <<>>]>> : t \in RawNames}

NextNorm ==
    \/ NormalizeCall
    \/ MainNormalizeCall
    \/ ManagerNormalizeCall

SpecNorm == InitNorm /\ [][NextNorm]_vars

\* The alias inputs and the canonical name of each.
AliasInputs ==
    { <<"finger-taping", "finger-tapping">>,
      <<"fist_open_close", "fist-open-close">>,
      <<"stand-sit", "stand-and-sit">>,
      <<"stand-&-sit-assessment", "stand-and-sit">>,
      <<"palm-open", "fist-open-close">> }

\* C22: the normalisation of the session engine (normalize_test_name) and
\* of the read side (_normalize_test_name) map each of the alias inputs
\* finger-taping, fist_open_close, stand-sit, stand-&-sit-assessment and
\* palm-open to its canonical name.
C22_AliasesResolve ==
    \A p \in AliasInputs :
        (/\ norm # <<>>
         /\ norm[1].name = p[1]
         /\ norm[1].out # <<>>
         /\ norm[1].out[1].by \in {"normalize_test_name", "_normalize_test_name"})
        => norm[1].out[1].value = p[2]

----------------------------------------------------------------------------
(* Recordings and session state across messages *)

\* C23: once the MP4 of a test_id is written, no later operation rewrites
\* or replaces it: every recording on disk stays on disk with the frames
\* it was written with, whatever `end` follows on any connection.
C23_RecordingNeverRewritten ==
    [][\A f \in recordings : f \in recordings']_vars

\* C26: after a successful `init` the frame buffer holds only frames
\* received since that init: an init on a connection that already buffered
\* frames leaves the frame buffer empty.
C26_InitStartsWithEmptyFrames ==
    [][\A c \in Conns :
          (Handled(c, "init") /\ sent'[c] = <<Status("initialized")>>)
          => frames'[c] = <<>>]_vars

\* C27: `init` is atomic: an init that fails (answered with an error and no
\* status) changes no session variable, so a session started before it
\* stays started with its patient, test name, model, extractor and scorer.
C27_FailedInitChangesNothing ==
    [][\A c \in Conns :
          (/\ Handled(c, "init")
           /\ HasErrorAt(sent'[c], "init")
           /\ "status" \notin Types(sent'[c]))
          => LocalsUnchanged(c)]_vars

\* C28: no client message ends the message loop: every message received,
\* text that is no JSON object and an `end` on which finalize raises
\* included, is answered, the loop keeps running, and a message answered
\* with the bare exception error leaves the session as it was.
C28_LoopSurvivesEveryMessage ==
    [][\A c \in Conns :
          nmsgs'[c] = nmsgs[c] + 1
          => /\ sent'[c] # <<>>
             /\ alive'[c]
             /\ (sent'[c] = <<ErrorPlain("exception")>> => LocalsUnchanged(c))]_vars

\* The image in which the landmarks the model needs are detected.
RequiredImage(m) == IF m = "pose" THEN "body" ELSE "hand"

\* The answer holds the no-features error.
NoFeatures(answer) ==
    \E i \in 1..Len(answer) :
        /\ answer[i].type = "dtw_error"
        /\ answer[i].message = "No features or template missing"

\* C29: every model of the data model (hands, pose, finger) can run a
\* session to scoring: an `end` that follows an init with the model and
\* frames that all show the landmarks the model needs finds at least one
\* built feature, and is not answered with the no-features error when the
\* template of the session loaded.
C29_EveryModelScores ==
    [][\A c \in Conns :
          (/\ Handled(c, "end")
           /\ started[c]
           /\ dtw_end[c] # <<>>
           /\ model[c] \in Models
           /\ hist[c].fed # <<>>
           /\ \A i \in 1..Len(hist[c].fed) :
                 /\ hist[c].fed[i].img = RequiredImage(model[c])
                 /\ ~hist[c].fed[i].crash)
          => /\ dtw_end[c][1].buf # <<>>
             /\ dtw_end[c][1].X_ref # <<>> => ~NoFeatures(sent'[c])]_vars

----------------------------------------------------------------------------
(* The DTW read endpoints (dtw_rest.py) on a stored session *)

MaxSeries == 120      \* live frames of the stored session
MinMaxPoints == 50    \* the smallest max_points the series endpoints accept

\* The max_points values requested
MaxPointsChoices == {MinMaxPoints, MinMaxPoints + 10}

\* The arrays finalize hands to save_dtw_npz for T live rows and R template
\* rows: a warping path from (0,0) to (T-1,R-1), one local cost per pair of
\* the path, the template row paired last with every live row, and a
\* feature column of the live and of the template matrix.
StoredPath(T, R) ==
    [k \in 1..MaxOf({T, R}) |-> <<MinOf({k, T}) - 1, MinOf({k, R}) - 1>>]
StoredCosts(T, R) == [k \in 1..MaxOf({T, R}) |-> (k * 3) % 5]
StoredAligned(T, R) == AlignedRefByLive(StoredPath(T, R), T)
StoredColumn(n) == [i \in 1..n |-> (i * 2) % 7]

\* save_dtw_npz of routes/utils_dtw.py: the folder DTW_BASE/canonical/test_id
\* and the arrays of dtw_artifacts.npz by name.
routes_save_arrays(T, R) ==
    [X_live |-> StoredColumn(T), Y_ref |-> StoredColumn(R),
     AX_live |-> StoredColumn(T), AY_ref |-> StoredColumn(R),
     SX_live |-> StoredColumn(T), SY_ref |-> StoredColumn(R),
     pos_path |-> StoredPath(T, R),
     pos_local_costs |-> StoredCosts(T, R),
     pos_aligned_ref_by_live |-> StoredAligned(T, R),
     amp_path |-> StoredPath(T, R),
     amp_local_costs |-> StoredCosts(T, R),
     amp_aligned_ref_by_live |-> StoredAligned(T, R),
     spd_path |-> StoredPath(T, R),
     spd_local_costs |-> StoredCosts(T, R),
     spd_aligned_ref_by_live |-> StoredAligned(T, R)]

\* save_dtw_npz of utils_dtw.py (main.py)
main_save_arrays(T, R) ==
    [X_live |-> StoredColumn(T), Y_ref |-> StoredColumn(R),
     path |-> StoredPath(T, R),
     local_costs |-> StoredCosts(T, R),
     aligned_ref_by_live |-> StoredAligned(T, R)]

\* The session folder finalize leaves for test_id tid.
StoredSession(a, test, tid, T, R) ==
    [test |-> save_dtw_npz(a, test, tid).test_name,
     id |-> tid,
     model |-> "hands",
     arrays |-> IF a = "routes" THEN routes_save_arrays(T, R)
                ELSE main_save_arrays(T, R)]

\* npz.get(key): <<>> for None
NpzGet(arrays, key) == IF key \in DOMAIN arrays THEN <<arrays[key]>> ELSE <<>>

\* list(range(0, n, step))
Range(n, step) == [k \in 1..((n + step - 1) \div step) |-> (k - 1) * step]

\* arr[::step]
Slice(arr, step) == [k \in 1..((Len(arr) + step - 1) \div step) |-> arr[(k - 1) * step + 1]]

\* _downsample of get_series: [x, y]
_downsample(arr, kmax) ==
    LET n == Len(arr)
        step == MaxOf({1, n \div kmax})
    IN  IF n <= kmax
        THEN [x |-> Range(n, 1), y |-> arr]
        ELSE [x |-> Range(n, step), y |-> Slice(arr, step)]

\* _downsample_xy: [x, y]
_downsample_xy(x, y, kmax) ==
    LET n == Len(x)
        step == MaxOf({1, n \div kmax})
    IN  IF n <= kmax
        THEN [x |-> x, y |-> y]
        ELSE [x |-> Slice(x, step), y |-> Slice(y, step)]

HTTPException(code) == [status |-> code]

\* _test_dir and _session_dir on DTW_BASE holding the session `s`
SessionDirFound(s, test, session_id) == s.test = test /\ s.id = session_id

\* GET /dtw/sessions/lookup/{session_id}
lookup_session(s, session_id) ==
    IF s.id = session_id
    THEN [status |-> 200, testName |-> s.test, sessionId |-> session_id]
    ELSE HTTPException(404)

\* GET /dtw/sessions/{test_name}/{session_id}/series
get_series(s, test, session_id, max_points) ==
    LET local == NpzGet(s.arrays, "local_costs")
        align == NpzGet(s.arrays, "aligned_ref_by_live")
    IN  IF ~SessionDirFound(s, test, session_id)
        THEN HTTPException(404)
        ELSE IF local = <<>> \/ align = <<>>
        THEN HTTPException(500)
        ELSE [status |-> 200,
              max_points |-> max_points,
              local_cost_path |-> _downsample(local[1], max_points),
              cumulative_progress |-> [x |-> Range(Len(local[1]), 1)],
              alignment_map |-> [x |-> Range(Len(align[1]), 1), y |-> align[1]]]

\* GET /dtw/sessions/{test_name}/{session_id}/channel (routes/dtw_rest.py),
\* for landmark 0 and axis x; npz["path"] raises KeyError for a missing array.
get_channel_series(s, test, session_id, max_points) ==
    IF ~SessionDirFound(s, test, session_id)
    THEN HTTPException(404)
    ELSE IF {"X_live", "Y_ref", "path"} \subseteq DOMAIN s.arrays
    THEN [status |-> 200,
          max_points |-> max_points,
          live |-> _downsample_xy(Range(Len(s.arrays.X_live), 1), s.arrays.X_live, max_points),
          ref |-> _downsample_xy(Range(Len(s.arrays.Y_ref), 1), s.arrays.Y_ref, max_points)]
    ELSE HTTPException(500)

\* The client looks the session up by its id
LookupSession(session_id) ==
    /\ rest # <<>>
    /\ rest[1].looked = <<>>
    /\ rest[1].out = <<>>
    /\ rest' = <<[rest[1] EXCEPT !.looked = <<lookup_session(rest[1].session, session_id)>>]>>
    /\ UNCHANGED <<app, mp_ok, connVars, sessionVars, storeVars, unit, dtw, norm>>

\* ... and requests the series of the session the lookup named
GetSeries(max_points) ==
    /\ rest # <<>>
    /\ rest[1].looked # <<>>
    /\ rest[1].looked[1].status = 200
    /\ rest[1].out = <<>>
    /\ rest' = <<[rest[1] EXCEPT !.out =
                    <<[call |-> "get_series",
                       res |-> get_series(rest[1].session, rest[1].looked[1].testName,
                                          rest[1].looked[1].sessionId, max_points)]>>]>>
    /\ UNCHANGED <<app, mp_ok, connVars, sessionVars, storeVars, unit, dtw, norm>>

GetChannelSeries(max_points) ==
    /\ app = "routes"
    /\ rest # <<>>
    /\ rest[1].looked # <<>>
    /\ rest[1].looked[1].status = 200
    /\ rest[1].out = <<>>
    /\ rest' = <<[rest[1] EXCEPT !.out =
                    <<[call |-> "get_channel_series",
                       res |-> get_channel_series(rest[1].session, rest[1].looked[1].testName,
                                                  rest[1].looked[1].sessionId, max_points)]>>]>>
    /\ UNCHANGED <<app, mp_ok, connVars, sessionVars, storeVars, unit, dtw, norm>>

\* _downsample_xy(arange(T), X_live[:, 0], kmax) called on the live matrix
DownsampleXY(kmax) ==
    /\ rest # <<>>
    /\ rest[1].out = <<>>
    /\ rest' = <<[rest[1] EXCEPT !.out =
                    <<[call |-> "_downsample_xy",
                       res |-> [status |-> 200,
                                max_points |-> kmax,
                                live |-> _downsample_xy(
                                            Range(Len(rest[1].session.arrays.X_live), 1),
                                            rest[1].session.arrays.X_live, kmax)]]>>]>>
    /\ UNCHANGED <<app, mp_ok, connVars, sessionVars, storeVars, unit, dtw, norm>>

InitSeries ==
    /\ app \in Apps
    /\ mp_ok = TRUE
    /\ alive = [c \in Conns |-> FALSE]
    /\ InitLocals
    /\ InitStores
    /\ unit = <<>>
    /\ dtw = <<>>
    /\ norm = <<>>
    /\ rest \in {<<[session |-> StoredSession(app, "finger-tapping", "T1", T, R),
                    looked |-> <<>>, out |-> <<>>]>> :
                    T \in 1..MaxSeries, R \in {2, MaxSeries}}

NextSeries ==
    \/ \E sid \in {"T1", "T2"} : LookupSession(sid)
    \/ \E n \in MaxPointsChoices : GetSeries(n)
    \/ \E n \in MaxPointsChoices : GetChannelSeries(n)
    \/ \E n \in MaxPointsChoices : DownsampleXY(n)

SpecSeries == InitSeries /\ [][NextSeries]_vars

\* The response of the read call made with `call`, when there is one.
RestOut(call) ==
    IF rest # <<>> /\ "out" \in DOMAIN rest[1] /\ rest[1].out # <<>>
       /\ rest[1].out[1].call = call
    THEN <<rest[1].out[1].res>> ELSE <<>>

\* The stored array of the position channel under either naming.
StoredArray(name) ==
    IF name \in DOMAIN rest[1].session.arrays
    THEN rest[1].session.arrays[name]
    ELSE rest[1].session.arrays["pos_" \o name]

\* The indices the downsampling rule keeps of a series of n points:
\* 0, step, 2*step, ... with step = n \div N when n > N, all of them otherwise.
RuleIndices(n, N) ==
    IF n > N THEN {i \in 0..(n - 1) : i % (n \div N) = 0} ELSE 0..(n - 1)

IndexSet(xs) == {xs[k] : k \in 1..Len(xs)}

\* C24: for a session stored by finalize, the lookup by session id followed
\* by the series request succeeds, and the local costs and the alignment
\* map it returns have the lengths of the stored arrays after the
\* downsampling rule, the alignment indices being subsampled as the costs.
C24_SeriesMatchesStore ==
    \A i \in 1..Len(RestOut("get_series")) :
        LET r == RestOut("get_series")[i]
        IN  /\ r.status = 200
            /\ IndexSet(r.local_cost_path.x)
                  = RuleIndices(Len(StoredArray("local_costs")), r.max_points)
            /\ Len(r.local_cost_path.y) = Len(r.local_cost_path.x)
            /\ IndexSet(r.alignment_map.x)
                  = RuleIndices(Len(StoredArray("aligned_ref_by_live")), r.max_points)
            /\ Len(r.alignment_map.y) = Len(r.alignment_map.x)

\* The downsampled series x, y holds at most N points of `source`, each y
\* being the source value at its x.
AtMostOf(ds, source, N) ==
    /\ Len(ds.x) <= N
    /\ Len(ds.y) = Len(ds.x)
    /\ \A k \in 1..Len(ds.x) : ds.y[k] = source[ds.x[k] + 1]

\* C30: downsampling returns at most max_points points: for every series
\* length and every accepted max_points, _downsample and _downsample_xy
\* return no more than max_points points, and the x indices returned are
\* the indices of the y values returned.
C30_DownsampleAtMostMaxPoints ==
    /\ \A i \in 1..Len(RestOut("get_series")) :
          LET r == RestOut("get_series")[i]
          IN  r.status = 200
              => AtMostOf(r.local_cost_path, StoredArray("local_costs"), r.max_points)
    /\ \A i \in 1..Len(RestOut("_downsample_xy")) :
          LET r == RestOut("_downsample_xy")[i]
          IN  AtMostOf(r.live, StoredArray("X_live"), r.max_points)

----------------------------------------------------------------------------
(* Recording access: the video list of routes/videos.py and the recording
   download of main.py, requested by a user *)

Users == {"A", "B"}

\* The sessions recorded for patient P1: the TestResult row of each and the
\* file _save_frames_to_mp4 wrote for it.
RecordedRows ==
    { [test_id |-> "T1", patient_id |-> "P1", test_name |-> "finger-tapping",
       recording_file |-> <<"ws_recording_T1.mp4">>],
      [test_id |-> "T2", patient_id |-> "P1", test_name |-> "fist-open-close",
       recording_file |-> <<>>] }
RecordedFiles == {"ws_recording_T1.mp4", "ws_recording_T2.mp4"}

\* list_videos(patient_id, test_key) of routes/videos.py: the recording
\* files of the rows of the patient and the normalised test name.
list_videos(testresults, pid, test_key) ==
    [status |-> 200,
     videos |-> {r.recording_file[1] :
                    r \in {q \in testresults :
                              /\ q.patient_id = pid
                              /\ q.test_name = normalize_test_name(test_key)
                              /\ q.recording_file # <<>>}}]

\* get_recording_file(filename) of main.py
get_recording_file(dir, filename) ==
    IF filename \notin dir
    THEN [status |-> 404, file |-> <<>>]
    ELSE [status |-> 200, file |-> <<filename>>]

\* GET /videos/{patient_id}/{test_key} sent by `user`
ListVideos(user, pid, test_key) ==
    /\ app = "routes"
    /\ rest # <<>>
    /\ rest[1].out = <<>>
    /\ rest' = <<[rest[1] EXCEPT !.out =
                    <<[call |-> "list_videos", user |-> user, patient_id |-> pid,
                       res |-> list_videos(rest[1].testresults, pid, test_key)]>>]>>
    /\ UNCHANGED <<app, mp_ok, connVars, sessionVars, storeVars, unit, dtw, norm>>

\* GET /recordings/{filename} sent by `user`
GetRecordingFile(user, filename) ==
    /\ app = "main"
    /\ rest # <<>>
    /\ rest[1].out = <<>>
    /\ rest' = <<[rest[1] EXCEPT !.out =
                    <<[call |-> "get_recording_file", user |-> user, filename |-> filename,
                       res |-> get_recording_file(rest[1].dir, filename)]>>]>>
    /\ UNCHANGED <<app, mp_ok, connVars, sessionVars, storeVars, unit, dtw, norm>>

InitAccess ==
    /\ app \in Apps
    /\ mp_ok = TRUE
    /\ alive = [c \in Conns |-> FALSE]
    /\ InitLocals
    /\ InitStores
    /\ unit = <<>>
    /\ dtw = <<>>
    /\ norm = <<>>
    /\ rest \in {<<[owner |-> u, testresults |-> rs, dir |-> fs, out |-> <<>>]>> :
                    u \in Users, rs \in SUBSET RecordedRows, fs \in SUBSET RecordedFiles}

NextAccess ==
    \/ \E user \in Users, pid \in {"P1", "P2"}, test_key \in {"finger-taping", "palm-open"} :
          ListVideos(user, pid, test_key)
    \/ \E user \in Users, filename \in RecordedFiles : GetRecordingFile(user, filename)

SpecAccess == InitAccess /\ [][NextAccess]_vars

\* C25: recording access enforces ownership through the patient row: a
\* request for a recording of patient P1 by a user who does not own P1 is
\* answered 404, and the video list of P1 that user gets holds no recording
\* file name.
C25_RecordingsOwnedByUser ==
    /\ \A i \in 1..Len(RestOut("get_recording_file")) :
          rest[1].out[1].user # rest[1].owner
          => RestOut("get_recording_file")[i].status = 404
    /\ \A i \in 1..Len(RestOut("list_videos")) :
          (rest[1].out[1].user # rest[1].owner /\ rest[1].out[1].patient_id = "P1")
          => RestOut("list_videos")[i].videos = {}

====
